---- MODULE Spec2Model ----
(***************************************************************************)
(* dayz-monitor: the keyword parser and the server info fetcher of         *)
(* src/src/lib.rs, and the status message controller (the ready handler    *)
(* and the tick loops it spawns) of src/src/main.rs.                       *)
(*                                                                         *)
(* Strings are sequences of characters, a character is a one-letter string *)
(* (EAcute stands for a character of two UTF-8 bytes).  A u32 is a pair of *)
(* 16-bit limbs, so that the overflow of parse::<u32> is computed.         *)
(***************************************************************************)
EXTENDS Integers, Sequences, FiniteSets, TLC

\* ------------------------------------------------------------------ bounds
\* Ready events delivered to the handler in one process run (one loop each).
MaxReady == 2
\* Tokens joined into a generated keyword string.
MaxTokens == 2
\* Messages the chat platform accepts in one run (caps the send successes).
MaxCreated == 2
\* The send_message outcomes remembered (the most recent ones).
MaxSendLog == 2

\* --------------------------------------------------------------- constants
\* value.len() <= 8
MaxTimeLen == 8

\* ------------------------------------------------------------------ Option
None == [tag |-> "None"]
Some(x) == [tag |-> "Some", val |-> x]
IsSome(o) == o.tag = "Some"

\* ------------------------------------------------------------------ strings
EAcute == "e-acute"
LQS == <<"l", "q", "s">>
Comma == ","
Colon == ":"

\* str::len(): the length in UTF-8 bytes.
Utf8Len(c) == IF c = EAcute THEN 2 ELSE 1

RECURSIVE ByteLen(_)
ByteLen(s) == IF s = <<>> THEN 0 ELSE Utf8Len(Head(s)) + ByteLen(Tail(s))

StartsWith(s, p) == Len(s) >= Len(p) /\ SubSeq(s, 1, Len(p)) = p

Contains(s, c) == \E i \in 1..Len(s) : s[i] = c

\* str::split(','): the pieces between the commas, empty pieces kept.
RECURSIVE Split(_)
Split(s) ==
    IF ~Contains(s, Comma) THEN <<s>>
    ELSE LET i == CHOOSE k \in 1..Len(s) :
                      s[k] = Comma /\ \A j \in 1..(k - 1) : s[j] # Comma
         IN <<SubSeq(s, 1, i - 1)>> \o Split(SubSeq(s, i + 1, Len(s)))

\* str::replace(p, ""): every non-overlapping occurrence of p removed, from the left.
RECURSIVE Replace(_, _)
Replace(s, p) ==
    IF s = <<>> THEN <<>>
    ELSE IF StartsWith(s, p) THEN Replace(SubSeq(s, Len(p) + 1, Len(s)), p)
    ELSE <<Head(s)>> \o Replace(Tail(s), p)

\* --------------------------------------------------------------------- u32
Limb == 2 ^ 16
U32(hi, lo) == [hi |-> hi, lo |-> lo]
U32Of(n) == U32(n \div Limb, n % Limb)

Digits == {"0", "1", "2", "3", "4", "5", "6", "7", "8", "9"}
DigitVal(c) ==
    CASE c = "0" -> 0 [] c = "1" -> 1 [] c = "2" -> 2 [] c = "3" -> 3
      [] c = "4" -> 4 [] c = "5" -> 5 [] c = "6" -> 6 [] c = "7" -> 7
      [] c = "8" -> 8 [] c = "9" -> 9

\* One digit of from_str_radix: acc.checked_mul(10)?.checked_add(d)?
MulAdd10(acc, d) ==
    LET x == acc.lo * 10 + d
        hi == acc.hi * 10 + (x \div Limb)
    IN IF hi >= Limb THEN None ELSE Some(U32(hi, x % Limb))

RECURSIVE ParseDigits(_, _)
ParseDigits(s, acc) ==
    IF s = <<>> THEN Some(acc)
    ELSE IF Head(s) \notin Digits THEN None
    ELSE LET next == MulAdd10(acc, DigitVal(Head(s)))
         IN IF IsSome(next) THEN ParseDigits(Tail(s), next.val) ELSE None

\* str::parse::<u32>().ok(): an optional leading '+', then one or more ASCII
\* digits, the value at most u32::MAX; anything else is None.
ParseU32(s) ==
    IF s = <<>> THEN None
    ELSE LET digits == IF Head(s) = "+" THEN Tail(s) ELSE s
         IN IF digits = <<>> THEN None ELSE ParseDigits(digits, U32(0, 0))

\* ------------------------------------------------------------ keyword parser
ServerInfo(t, q, p, m) ==
    [server_time |-> t, players_in_queue |-> q, players |-> p, max_players |-> m]

EmptyServerInfo == ServerInfo(None, None, 0, 0)

\* Mutant: the time rule without its is_none() test, so that the last match wins.
ScanToken_LastTimeWins(server_info, value) ==
    IF StartsWith(value, LQS)
    THEN [server_info EXCEPT !.players_in_queue = ParseU32(Replace(value, LQS))]
    ELSE IF Contains(value, Colon) /\ ByteLen(value) <= MaxTimeLen
    THEN [server_info EXCEPT !.server_time = Some(value)]
    ELSE server_info

\* Mutant: the lqs branch has no continue, the token goes on to the time rule.
ScanToken_NoContinue(server_info, value) ==
    LET queued ==
            IF StartsWith(value, LQS)
            THEN [server_info EXCEPT !.players_in_queue = ParseU32(Replace(value, LQS))]
            ELSE server_info
    IN IF Contains(value, Colon) /\ queued.server_time = None
          /\ ByteLen(value) <= MaxTimeLen
       THEN [queued EXCEPT !.server_time = Some(value)]
       ELSE queued

\* The body of the for loop, for one token.
ScanToken(server_info, value) ==
    IF StartsWith(value, LQS)
    THEN [server_info EXCEPT !.players_in_queue = ParseU32(Replace(value, LQS))]
    ELSE IF Contains(value, Colon) /\ server_info.server_time = None
            /\ ByteLen(value) <= MaxTimeLen
    THEN [server_info EXCEPT !.server_time = Some(value)]
    ELSE server_info

RECURSIVE ScanTokens(_, _)
ScanTokens(server_info, split) ==
    IF split = <<>> THEN server_info
    ELSE ScanTokens(ScanToken(server_info, Head(split)), Tail(split))

\* Mutant: missing keywords are parsed as an empty keyword string.
extract_time_and_queue_Default(keywords) ==
    IF keywords = None THEN Some(EmptyServerInfo)
    ELSE Some(ScanTokens(EmptyServerInfo, Split(keywords.val)))

\* keywords is the Option<String> of the response's extended server info.
extract_time_and_queue(keywords) ==
    IF keywords = None THEN None
    ELSE Some(ScanTokens(EmptyServerInfo, Split(keywords.val)))

\* -------------------------------------------------------- server info fetcher
Ok(x) == [tag |-> "Ok", val |-> x]
Err(e) == [tag |-> "Err", err |-> e]
IsOk(r) == r.tag = "Ok"

A2SError == "A2SError"
ExtractServerInfoKeywordsMissing == "ExtractServerInfoKeywordsMissing"

\* The response of the a2s client: player count, max player count, keywords.
Info(p, m, k) == [players |-> p, max_players |-> m, keywords |-> k]

\* client.info(addr).await? : a failed query returns the A2S error at once.
QueryFailed(reply) == ~IsOk(reply)

\* extract_time_and_queue(..).ok_or(KeywordsMissing)
Extracted(info) ==
    LET parsed == extract_time_and_queue(info.keywords)
    IN IF parsed = None THEN Err(ExtractServerInfoKeywordsMissing) ELSE Ok(parsed.val)

\* Mutant: the counts of the response are not copied into the parsed record.
Filled_KeepsParsed(si, info) == Ok(si)

\* server_info.players = ..; server_info.max_players = ..; Ok(server_info)
Filled(si, info) ==
    Ok([si EXCEPT !.players = info.players, !.max_players = info.max_players])

retrieve_server_info(reply) ==
    IF QueryFailed(reply) THEN Err(A2SError)
    ELSE LET e == Extracted(reply.val)
         IN IF IsOk(e) THEN Filled(e.val, reply.val) ELSE e

\* ------------------------------------------------------------------- inputs
T_lqs3 == <<"l", "q", "s", "3">>
T_lqs == <<"l", "q", "s">>
T_lqsx == <<"l", "q", "s", "x">>
T_lqsPlus5 == <<"l", "q", "s", "+", "5">>
T_lqs07 == <<"l", "q", "s", "0", "7">>
T_lqs1lqs2 == <<"l", "q", "s", "1", "l", "q", "s", "2">>
T_lqsColon1 == <<"l", "q", "s", ":", "1">>
T_lqsMax == <<"l", "q", "s", "4", "2", "9", "4", "9", "6", "7", "2", "9", "5">>
T_lqsOver == <<"l", "q", "s", "4", "2", "9", "4", "9", "6", "7", "2", "9", "6">>
T_1234 == <<"1", "2", ":", "3", "4">>
T_0800 == <<"0", "8", ":", "0", "0">>
T_foo == <<"f", "o", "o">>
T_empty == <<>>
T_len8 == <<"1", "2", ":", "3", "4", ":", "5", "6">>
T_len9 == <<"1", "2", ":", "3", "4", ":", "5", "6", "7">>
T_wide8 == <<EAcute, "2", ":", "3", "4", ":", "5", "6">>

TokenPool ==
    {T_lqs3, T_lqs, T_lqsx, T_lqsPlus5, T_lqs07, T_lqs1lqs2, T_lqsColon1, T_lqsMax,
     T_lqsOver, T_1234, T_0800, T_foo, T_empty, T_len8, T_len9, T_wide8}

RECURSIVE Join(_)
Join(ts) ==
    IF Len(ts) = 1 THEN ts[1] ELSE ts[1] \o <<Comma>> \o Join(Tail(ts))

\* "lqs3,12:34,foo,08:00"
ExampleKeywords == Join(<<T_lqs3, T_1234, T_foo, T_0800>>)

KeywordStrings ==
    {Join(ts) : ts \in UNION {[1..n -> TokenPool] : n \in 1..MaxTokens}}
        \cup {ExampleKeywords}

PlayerCounts == {<<5, 60>>, <<61, 60>>}

\* What client.info can yield to retrieve_server_info.
Replies ==
    {Err(A2SError)}
        \cup {Ok(Info(c[1], c[2], k)) :
                c \in PlayerCounts, k \in {None} \cup {Some(w) : w \in KeywordStrings}}

\* What the query can yield on a tick of the loop.
Responses ==
    {Err(A2SError),
     Ok(Info(5, 60, None)),
     Ok(Info(5, 60, Some(ExampleKeywords))),
     Ok(Info(61, 60, Some(T_lqs)))}

\* config.status_message_id
ConfigChoices == {None, Some(41), Some(0)}

\* -------------------------------------------------------------------- state
VARIABLES
    cfg,          \* config.status_message_id: Option<u64>
    message_id,   \* BotState.message_id: the Option<MessageId> behind the RwLock
    lock,         \* the task holding the write lock of message_id, 0 when free
    pc,           \* per ready event: where its handler, then its loop, stands
    msg_id,       \* per loop: the local msg_id of the iteration
    edit,         \* per loop: the EditMessage built in the iteration
    tick,         \* per loop: the chat and query calls of the iteration so far
    posted,       \* the ids of the messages send_message has created
    failed_edit,  \* the id of the last edit_message that failed
    sends,        \* the outcomes of the last MaxSendLog send_message calls, oldest first
    retrying,     \* the loops whose last send_message failed and that have neither
                  \* started another send nor left the ensure-message block since
    reply,        \* retrieve_server_info: what client.info yields
    fetch_pc,     \* retrieve_server_info: where the call stands
    server_info,  \* retrieve_server_info: the parser's return value
    fetch_ret     \* retrieve_server_info: the value returned

ctl_vars ==
    <<cfg, message_id, lock, pc, msg_id, edit, tick, posted, failed_edit, sends, retrying>>
fetch_vars == <<reply, fetch_pc, server_info, fetch_ret>>
vars == <<cfg, message_id, lock, pc, msg_id, edit, tick, posted, failed_edit, sends, retrying,
          reply, fetch_pc, server_info, fetch_ret>>

Tasks == 1..MaxReady
NoEdit == [view |-> "none"]
NotCalled == [tag |-> "NotCalled"]
NotReturned == [tag |-> "NotReturned"]

\* ------------------------------------------------------------------ rendering
build_online_edit(info) == [view |-> "online", info |-> info]
build_offline_edit(err) == [view |-> "offline", err |-> err]

\* Mutant: a failed query is rendered as the online view of an empty record.
EditFor_AlwaysOnline(result) ==
    IF IsOk(result) THEN build_online_edit(result.val)
    ELSE build_online_edit(EmptyServerInfo)

\* match result { Ok(info) => build_online_edit, Err(err) => build_offline_edit }
EditFor(result) ==
    IF IsOk(result) THEN build_online_edit(result.val)
    ELSE build_offline_edit(result.err)

\* The outcome of one more send_message call, the oldest one forgotten when full.
Remember(log, ok) ==
    IF Len(log) < MaxSendLog THEN Append(log, ok) ELSE Append(Tail(log), ok)

\* The record of one retrieve_server_info call.
QueryCall(result) ==
    [op |-> "query", ok |-> IsOk(result), err |-> IF IsOk(result) THEN "" ELSE result.err]

\* The id the chat platform gives the next message it creates.
FreshId == 101 + Cardinality(posted)

\* ---------------------------------------------------------------- controller
InitController ==
    /\ message_id = None
    /\ lock = 0
    /\ pc = [t \in Tasks |-> "idle"]
    /\ msg_id = [t \in Tasks |-> None]
    /\ edit = [t \in Tasks |-> NoEdit]
    /\ tick = [t \in Tasks |-> <<>>]
    /\ posted = {}
    /\ failed_edit = None
    /\ sends = <<>>
    /\ retrying = {}

\* Mutant: the loop is spawned before the configured id is stored.
Ready_SpawnAtOnce(r) ==
    /\ pc[r] = "idle"
    /\ \A q \in Tasks : q < r => pc[q] # "idle"
    /\ pc' = [pc EXCEPT ![r] = "top"]
    /\ UNCHANGED <<cfg, message_id, lock, msg_id, edit, tick, posted, failed_edit, sends, retrying>>
    /\ UNCHANGED fetch_vars

\* ready(): the event arrives (the gateway delivers ready events one after another;
\* their handlers run concurrently); without a configured id the loop is spawned at once.
Ready(r) ==
    /\ pc[r] = "idle"
    /\ \A q \in Tasks : q < r => pc[q] # "idle"
    /\ pc' = [pc EXCEPT ![r] = IF cfg = None THEN "top" ELSE "store"]
    /\ UNCHANGED <<cfg, message_id, lock, msg_id, edit, tick, posted, failed_edit, sends, retrying>>
    /\ UNCHANGED fetch_vars

\* *state.message_id.write().await = Some(MessageId::new(mid)); then tokio::spawn.
\* MessageId::new panics on 0 (the id is a NonZeroU64), and the value is computed
\* before the lock is asked for: the handler dies and spawns no loop.
ReadyStore(r) ==
    /\ pc[r] = "store"
    /\ IF cfg.val = 0
       THEN /\ pc' = [pc EXCEPT ![r] = "handler_panicked"]
            /\ UNCHANGED message_id
       ELSE /\ lock = 0
            /\ message_id' = Some(cfg.val)
            /\ pc' = [pc EXCEPT ![r] = "top"]
    /\ UNCHANGED <<cfg, lock, msg_id, edit, tick, posted, failed_edit, sends, retrying>>
    /\ UNCHANGED fetch_vars

\* Mutant: the identifier is looked at without waiting for the write lock.
Acquire_NoWait(t) ==
    /\ pc[t] = "top"
    /\ lock' = t
    /\ pc' = [pc EXCEPT ![t] = "check"]
    /\ UNCHANGED <<cfg, message_id, msg_id, edit, tick, posted, failed_edit, sends, retrying>>
    /\ UNCHANGED fetch_vars

\* let mut lock = state.message_id.write().await;
Acquire(t) ==
    /\ pc[t] = "top"
    /\ lock = 0
    /\ lock' = t
    /\ pc' = [pc EXCEPT ![t] = "check"]
    /\ UNCHANGED <<cfg, message_id, msg_id, edit, tick, posted, failed_edit, sends, retrying>>
    /\ UNCHANGED fetch_vars

\* if lock.is_none() { .. }
Check(t) ==
    /\ pc[t] = "check"
    /\ pc' = [pc EXCEPT ![t] = IF message_id = None THEN "send" ELSE "unwrap"]
    /\ retrying' = IF message_id = None THEN retrying \ {t} ELSE retrying
    /\ UNCHANGED <<cfg, message_id, lock, msg_id, edit, tick, posted, failed_edit, sends>>
    /\ UNCHANGED fetch_vars

\* Mutant: the id of the message sent is not stored.
SendOk_NotRecorded(t) ==
    /\ pc[t] = "send"
    /\ Cardinality(posted) < MaxCreated
    /\ posted' = posted \cup {FreshId}
    /\ tick' = [tick EXCEPT ![t] = Append(@, [op |-> "send", ok |-> TRUE])]
    /\ sends' = Remember(sends, TRUE)
    /\ pc' = [pc EXCEPT ![t] = "unwrap"]
    /\ UNCHANGED <<cfg, message_id, lock, msg_id, edit, failed_edit, retrying>>
    /\ UNCHANGED fetch_vars

\* send_message(..).await returns Ok(sent): *lock = Some(sent.id)
SendOk(t) ==
    /\ pc[t] = "send"
    /\ Cardinality(posted) < MaxCreated
    /\ posted' = posted \cup {FreshId}
    /\ message_id' = Some(FreshId)
    /\ tick' = [tick EXCEPT ![t] = Append(@, [op |-> "send", ok |-> TRUE])]
    /\ sends' = Remember(sends, TRUE)
    /\ pc' = [pc EXCEPT ![t] = "unwrap"]
    /\ UNCHANGED <<cfg, lock, msg_id, edit, failed_edit, retrying>>
    /\ UNCHANGED fetch_vars

\* Mutant: a failed send ends the task instead of retrying after the sleep.
SendErr_Returns(t) ==
    /\ pc[t] = "send"
    /\ lock' = 0
    /\ tick' = [tick EXCEPT ![t] = Append(@, [op |-> "send", ok |-> FALSE])]
    /\ sends' = Remember(sends, FALSE)
    /\ pc' = [pc EXCEPT ![t] = "stopped"]
    /\ retrying' = retrying \cup {t}
    /\ UNCHANGED <<cfg, message_id, msg_id, edit, posted, failed_edit>>
    /\ UNCHANGED fetch_vars

\* Mutant: the failure branch has no continue and falls through to the unwrap.
SendErr_FallsThrough(t) ==
    /\ pc[t] = "send"
    /\ tick' = [tick EXCEPT ![t] = Append(@, [op |-> "send", ok |-> FALSE])]
    /\ sends' = Remember(sends, FALSE)
    /\ pc' = [pc EXCEPT ![t] = "unwrap"]
    /\ retrying' = retrying \cup {t}
    /\ UNCHANGED <<cfg, message_id, lock, msg_id, edit, posted, failed_edit>>
    /\ UNCHANGED fetch_vars

\* Mutant: the failure branch sleeps without dropping the lock.
SendErr_KeepsLock(t) ==
    /\ pc[t] = "send"
    /\ tick' = [tick EXCEPT ![t] = Append(@, [op |-> "send", ok |-> FALSE])]
    /\ sends' = Remember(sends, FALSE)
    /\ pc' = [pc EXCEPT ![t] = "sleep_retry"]
    /\ retrying' = retrying \cup {t}
    /\ UNCHANGED <<cfg, message_id, lock, msg_id, edit, posted, failed_edit>>
    /\ UNCHANGED fetch_vars

\* send_message(..).await returns Err: drop(lock), then the retry sleep
SendErr(t) ==
    /\ pc[t] = "send"
    /\ lock' = 0
    /\ tick' = [tick EXCEPT ![t] = Append(@, [op |-> "send", ok |-> FALSE])]
    /\ sends' = Remember(sends, FALSE)
    /\ pc' = [pc EXCEPT ![t] = "sleep_retry"]
    /\ retrying' = retrying \cup {t}
    /\ UNCHANGED <<cfg, message_id, msg_id, edit, posted, failed_edit>>
    /\ UNCHANGED fetch_vars

\* tokio::time::sleep(..).await; continue;
SleepRetry(t) ==
    /\ pc[t] = "sleep_retry"
    /\ tick' = [tick EXCEPT ![t] = <<>>]
    /\ pc' = [pc EXCEPT ![t] = "top"]
    /\ UNCHANGED <<cfg, message_id, lock, msg_id, edit, posted, failed_edit, sends, retrying>>
    /\ UNCHANGED fetch_vars

\* Mutant: the identifier is taken out of the lock (lock.take().unwrap()).
Unwrap_Takes(t) ==
    /\ pc[t] = "unwrap"
    /\ lock' = 0
    /\ IF message_id = None
       THEN /\ pc' = [pc EXCEPT ![t] = "panicked"]
            /\ UNCHANGED msg_id
       ELSE /\ pc' = [pc EXCEPT ![t] = "fetch"]
            /\ msg_id' = [msg_id EXCEPT ![t] = message_id]
    /\ message_id' = None
    /\ retrying' = retrying \ {t}
    /\ UNCHANGED <<cfg, edit, tick, posted, failed_edit, sends>>
    /\ UNCHANGED fetch_vars

\* let msg_id = lock.unwrap(); drop(lock);  (the unwrap of None panics the task)
Unwrap(t) ==
    /\ pc[t] = "unwrap"
    /\ lock' = 0
    /\ IF message_id = None
       THEN /\ pc' = [pc EXCEPT ![t] = "panicked"]
            /\ UNCHANGED msg_id
       ELSE /\ pc' = [pc EXCEPT ![t] = "fetch"]
            /\ msg_id' = [msg_id EXCEPT ![t] = message_id]
    /\ retrying' = retrying \ {t}
    /\ UNCHANGED <<cfg, message_id, edit, tick, posted, failed_edit, sends>>
    /\ UNCHANGED fetch_vars

\* Mutant: a failed query skips the edit of this tick.
Fetch_SkipEditOnErr(t) ==
    /\ pc[t] = "fetch"
    /\ \E r \in Responses :
        LET result == retrieve_server_info(r)
        IN /\ edit' = [edit EXCEPT ![t] = IF IsOk(result) THEN EditFor(result) ELSE NoEdit]
           /\ tick' = [tick EXCEPT ![t] = Append(@, QueryCall(result))]
           /\ pc' = [pc EXCEPT ![t] = IF IsOk(result) THEN "edit" ELSE "sleep"]
    /\ UNCHANGED <<cfg, message_id, lock, msg_id, posted, failed_edit, sends, retrying>>
    /\ UNCHANGED fetch_vars

\* let result = retrieve_server_info(..).await; let edit = match result { .. };
Fetch(t) ==
    /\ pc[t] = "fetch"
    /\ \E r \in Responses :
        LET result == retrieve_server_info(r)
        IN /\ edit' = [edit EXCEPT ![t] = EditFor(result)]
           /\ tick' = [tick EXCEPT ![t] = Append(@, QueryCall(result))]
    /\ pc' = [pc EXCEPT ![t] = "edit"]
    /\ UNCHANGED <<cfg, message_id, lock, msg_id, posted, failed_edit, sends, retrying>>
    /\ UNCHANGED fetch_vars

\* The record of one edit_message(&http, msg_id, edit) call.
EditCall(t, ok) ==
    [op |-> "edit", id |-> msg_id[t].val, view |-> edit[t].view, ok |-> ok]

\* edit_message(..).await returns Ok
EditOk(t) ==
    /\ pc[t] = "edit"
    /\ tick' = [tick EXCEPT ![t] = Append(@, EditCall(t, TRUE))]
    /\ edit' = [edit EXCEPT ![t] = NoEdit]
    /\ pc' = [pc EXCEPT ![t] = "sleep"]
    /\ UNCHANGED <<cfg, message_id, lock, msg_id, posted, failed_edit, sends, retrying>>
    /\ UNCHANGED fetch_vars

\* Mutant: a failed edit forgets the identifier, so that a new message is sent.
EditErr_ClearsId(t) ==
    /\ pc[t] = "edit"
    /\ tick' = [tick EXCEPT ![t] = Append(@, EditCall(t, FALSE))]
    /\ edit' = [edit EXCEPT ![t] = NoEdit]
    /\ failed_edit' = msg_id[t]
    /\ message_id' = None
    /\ pc' = [pc EXCEPT ![t] = "sleep"]
    /\ UNCHANGED <<cfg, lock, msg_id, posted, sends, retrying>>
    /\ UNCHANGED fetch_vars

\* edit_message(..).await returns Err: the error is logged, nothing else
EditErr(t) ==
    /\ pc[t] = "edit"
    /\ tick' = [tick EXCEPT ![t] = Append(@, EditCall(t, FALSE))]
    /\ edit' = [edit EXCEPT ![t] = NoEdit]
    /\ failed_edit' = msg_id[t]
    /\ pc' = [pc EXCEPT ![t] = "sleep"]
    /\ UNCHANGED <<cfg, message_id, lock, msg_id, posted, sends, retrying>>
    /\ UNCHANGED fetch_vars

\* tokio::time::sleep(..).await; the next iteration starts
Sleep(t) ==
    /\ pc[t] = "sleep"
    /\ tick' = [tick EXCEPT ![t] = <<>>]
    /\ msg_id' = [msg_id EXCEPT ![t] = None]
    /\ pc' = [pc EXCEPT ![t] = "top"]
    /\ UNCHANGED <<cfg, message_id, lock, edit, posted, failed_edit, sends, retrying>>
    /\ UNCHANGED fetch_vars

Init ==
    /\ cfg \in ConfigChoices
    /\ InitController
    /\ reply = Err(A2SError)
    /\ fetch_pc = "off"
    /\ server_info = NotCalled
    /\ fetch_ret = NotReturned

Next ==
    \E t \in Tasks :
        \/ Ready(t)
        \/ ReadyStore(t)
        \/ Acquire(t)
        \/ Check(t)
        \/ SendOk(t)
        \/ SendErr(t)
        \/ SleepRetry(t)
        \/ Unwrap(t)
        \/ Fetch(t)
        \/ EditOk(t)
        \/ EditErr(t)
        \/ Sleep(t)

Spec == Init /\ [][Next]_vars

\* One step of loop t other than the wait for the lock: an await that returns
\* (send_message, retrieve_server_info, edit_message, sleep) or code between two.
LoopStep(t) ==
    \/ Check(t)
    \/ SendOk(t)
    \/ SendErr(t)
    \/ SleepRetry(t)
    \/ Unwrap(t)
    \/ Fetch(t)
    \/ EditOk(t)
    \/ EditErr(t)
    \/ Sleep(t)

\* One grant of the write lock to task t: to its ready handler, then to its loop.
LockGrant(t) == ReadyStore(t) \/ Acquire(t)

\* Every await of a spawned loop returns, and the write lock (tokio's RwLock queues
\* its waiters first come, first served) is granted to a task that keeps asking.
Fairness ==
    \A t \in Tasks : WF_vars(LoopStep(t)) /\ SF_vars(LockGrant(t))

SpecLive == Init /\ [][Next]_vars /\ Fairness

\* ------------------------------------------- retrieve_server_info, step by step
\* let info = client.info(addr).await?;
FetchInfo ==
    /\ fetch_pc = "info"
    /\ IF QueryFailed(reply)
       THEN /\ fetch_ret' = Err(A2SError)
            /\ fetch_pc' = "returned"
       ELSE /\ fetch_pc' = "extract"
            /\ UNCHANGED fetch_ret
    /\ UNCHANGED <<reply, server_info>>
    /\ UNCHANGED ctl_vars

\* let mut server_info = extract_time_and_queue(..).ok_or(KeywordsMissing)?;
FetchExtract ==
    /\ fetch_pc = "extract"
    /\ server_info' = extract_time_and_queue(reply.val.keywords)
    /\ IF IsOk(Extracted(reply.val))
       THEN /\ fetch_pc' = "fill"
            /\ UNCHANGED fetch_ret
       ELSE /\ fetch_ret' = Extracted(reply.val)
            /\ fetch_pc' = "returned"
    /\ UNCHANGED reply
    /\ UNCHANGED ctl_vars

\* server_info.players = ..; server_info.max_players = ..; Ok(server_info)
FetchFill ==
    /\ fetch_pc = "fill"
    /\ fetch_ret' = Filled(server_info.val, reply.val)
    /\ fetch_pc' = "returned"
    /\ UNCHANGED <<reply, server_info>>
    /\ UNCHANGED ctl_vars

InitFetch ==
    /\ cfg = None
    /\ InitController
    /\ reply \in Replies
    /\ fetch_pc = "info"
    /\ server_info = NotCalled
    /\ fetch_ret = NotReturned

NextFetch == FetchInfo \/ FetchExtract \/ FetchFill

SpecFetch == InitFetch /\ [][NextFetch]_vars

\* ------------------------------------------------------------------ helpers
Last(s) == s[Len(s)]

\* The calls of loop t's current iteration, by name, in order.
OpsOf(t) == [i \in 1..Len(tick[t]) |-> tick[t][i].op]

\* The same without the send_message of an iteration that created the message.
TickBody(t) ==
    IF OpsOf(t) # <<>> /\ OpsOf(t)[1] = "send" THEN Tail(OpsOf(t)) ELSE OpsOf(t)

InLoop(t) == pc[t] \notin {"idle", "store", "handler_panicked"}

\* ------------------------------------------------------------------- claims

\* C1: with no configured identifier, the identifier is unset as long as every
\* send_message so far has failed, it is set by the first send that succeeds,
\* no send is attempted after that one (a success is always the last send
\* made), and at most one message is ever created.
C1_CreatedAtMostOnce ==
    cfg = None =>
        /\ Cardinality(posted) <= 1
        /\ \A i \in 1..(Len(sends) - 1) : sends[i] = FALSE
        /\ (sends = <<>> \/ Last(sends) = FALSE) <=> message_id = None
        /\ message_id = None <=> posted = {}
        /\ message_id # None => posted = {message_id.val}
        /\ \A t \in Tasks : pc[t] = "send" => message_id = None

\* C1 witness: one loop alone; its first send failed, its second succeeded, and
\* the tick went on to edit the one message created.
C1_FailThenSucceed ==
    /\ cfg = None
    /\ pc[1] = "sleep" /\ pc[2] = "idle"
    /\ sends = <<FALSE, TRUE>>
    /\ Cardinality(posted) = 1
    /\ message_id # None

\* C2: the check of the identifier and the creation of the message are one
\* critical section under the write lock: at most one loop is between the
\* acquisition and the release, it is the lock's holder, what it saw at the
\* check (identifier unset) still holds while it sends, and so at most one
\* message is ever created, whatever the interleaving of the loops.
C2_CreateIsAtomic ==
    /\ Cardinality({t \in Tasks : pc[t] \in {"check", "send", "unwrap"}}) <= 1
    /\ \A t \in Tasks : pc[t] \in {"check", "send", "unwrap"} <=> lock = t
    /\ \A t \in Tasks : pc[t] = "send" => message_id = None /\ posted = {}
    /\ Cardinality(posted) <= 1

\* C2 witness: two loops run; one sends under the lock while the other waits
\* for the lock at the top of its iteration.
C2_OneSendsOneWaits ==
    \E t, u \in Tasks :
        /\ t # u
        /\ pc[t] = "send" /\ lock = t
        /\ pc[u] = "top"

\* C3: with a configured identifier, a loop only ever runs with that identifier
\* stored, no send_message is ever called, and every edit is at that identifier.
C3_ConfiguredIdOnly ==
    cfg # None =>
        /\ posted = {} /\ sends = <<>>
        /\ \A t \in Tasks :
            /\ InLoop(t) => message_id = cfg
            /\ pc[t] \notin {"send", "sleep_retry", "panicked"}
            /\ msg_id[t] # None => msg_id[t] = cfg
            /\ \A i \in 1..Len(tick[t]) :
                /\ tick[t][i].op # "send"
                /\ tick[t][i].op = "edit" => tick[t][i].id = cfg.val

\* C3 witness: a second ready event arrives while the first loop has edited the
\* configured message.
C3_EditedConfigured ==
    /\ cfg # None
    /\ pc[1] = "sleep" /\ Last(tick[1]).op = "edit" /\ Last(tick[1]).id = cfg.val
    /\ pc[2] = "store"

\* C4: on a tick whose retrieve_server_info fails (either error), the edit built
\* and applied is the offline view carrying that error, and the identifier
\* stored after the tick is the one the tick read before it.
C4_FailedQueryOffline ==
    \A t \in Tasks :
        /\ (pc[t] = "edit" /\ ~Last(tick[t]).ok) =>
            /\ edit[t] = build_offline_edit(Last(tick[t]).err)
            /\ Last(tick[t]).err \in {A2SError, ExtractServerInfoKeywordsMissing}
        /\ (pc[t] = "sleep" /\ ~tick[t][Len(tick[t]) - 1].ok) =>
            /\ Last(tick[t]).op = "edit"
            /\ Last(tick[t]).view = "offline"
            /\ message_id = msg_id[t]
            /\ Last(tick[t]).id = message_id.val

\* C4 witness: a tick whose response lacked the keywords has applied its edit.
C4_KeywordsMissingEdited ==
    \E t \in Tasks :
        /\ pc[t] = "sleep"
        /\ tick[t][Len(tick[t]) - 1].err = ExtractServerInfoKeywordsMissing
        /\ Last(tick[t]).view = "offline"

\* C5: once an edit_message has failed, the identifier stored is still the one
\* of the failed edit, no loop is creating (or will create) a message, and
\* every loop past the critical section works on that same identifier.
C5_EditFailureKeepsId ==
    failed_edit # None =>
        /\ message_id = failed_edit
        /\ \A t \in Tasks :
            /\ pc[t] \notin {"send", "panicked"}
            /\ msg_id[t] # None => msg_id[t] = failed_edit
            /\ \A i \in 1..Len(tick[t]) :
                tick[t][i].op = "edit" => tick[t][i].id = failed_edit.val

\* C5 witness: one loop alone; an edit of an earlier tick failed, and the
\* current tick has fetched again and is about to edit the same identifier.
C5_NextTickSameId ==
    /\ failed_edit # None
    /\ pc[1] = "edit" /\ pc[2] = "idle"
    /\ OpsOf(1) = <<"query">>
    /\ msg_id[1] = failed_edit

\* C10: a tick that is past the critical section makes exactly one query, then
\* exactly one edit_message at the stored identifier, whatever the query gave;
\* the edit is the online view exactly when the query returned Ok, and the
\* tick sleeps only once the edit has been attempted.
C10_OneQueryOneEdit ==
    \A t \in Tasks :
        /\ pc[t] \in {"top", "check", "send", "unwrap", "fetch"} =>
            TickBody(t) = <<>>
        /\ pc[t] = "edit" =>
            /\ TickBody(t) = <<"query">>
            /\ edit[t].view \in {"online", "offline"}
            /\ edit[t].view = "online" <=> Last(tick[t]).ok
        /\ pc[t] = "sleep" =>
            /\ TickBody(t) = <<"query", "edit">>
            /\ Last(tick[t]).id = msg_id[t].val
            /\ msg_id[t] = message_id
            /\ Last(tick[t]).view \in {"online", "offline"}
            /\ Last(tick[t]).view = "online" <=> tick[t][Len(tick[t]) - 1].ok

\* C10 witness: a tick that found the identifier set has queried with success and
\* edited with the online view; another has queried in vain and edited offline.
C10_BothViewsEdited ==
    /\ pc[1] = "sleep"
    /\ OpsOf(1) = <<"query", "edit">>
    /\ tick[1][1].ok /\ Last(tick[1]).view = "online"
    /\ Last(tick[1]).id = message_id.val
    /\ pc[2] = "sleep"
    /\ OpsOf(2) = <<"query", "edit">>
    /\ Last(tick[2]).view = "offline"

\* C9: a loop never stops: from wherever it stands it reaches the top of a
\* further iteration, and from the top it reaches the sleep that ends that
\* iteration, whatever send, query and edit return.
C9_LoopNeverStops ==
    \A t \in Tasks :
        []~InLoop(t) \/ []<><<Sleep(t) \/ SleepRetry(t)>>_vars

\* C9 witness: in one iteration the query and the edit both failed, while the
\* other loop's send failed; both loops are about to sleep and go on.
C9_AllFailedStillLooping ==
    /\ pc[1] = "sleep"
    /\ ~tick[1][Len(tick[1]) - 1].ok /\ ~Last(tick[1]).ok
    /\ pc[2] = "sleep_retry"
    /\ tick[2] = <<[op |-> "send", ok |-> FALSE]>>

\* ----------------------------------------------------- claims on the parser
\* The parser was called and returned a record (the keywords were there).
ParserReturned == fetch_pc \in {"fill", "returned"} /\ IsSome(server_info)

\* The tokens of the keyword string of the response.
Tokens == Split(reply.val.keywords.val)

Max(S) == CHOOSE x \in S : \A y \in S : y <= x
Min(S) == CHOOSE x \in S : \A y \in S : x <= y

\* The token at the least index of S, if any.
FirstOf(ts, S) == IF S = {} THEN None ELSE Some(ts[Min(S)])

LqsTokens(ts) == {i \in 1..Len(ts) : StartsWith(ts[i], LQS)}

\* The number an lqs token stands for, None when it does not parse.
QueueOf(v) == ParseU32(Replace(v, LQS))

ParsedLqsTokens(ts) == {i \in LqsTokens(ts) : IsSome(QueueOf(ts[i]))}

TimeLike(v) == Contains(v, Colon) /\ ByteLen(v) <= MaxTimeLen

\* C6 (as claimed): with several lqs tokens, players_in_queue is the value of the
\* last lqs token that parses, whatever unparsable lqs tokens follow it.
C6_LastParsedQueueWins ==
    (ParserReturned /\ Cardinality(LqsTokens(Tokens)) >= 2) =>
        server_info.val.players_in_queue =
            IF ParsedLqsTokens(Tokens) = {} THEN None
            ELSE QueueOf(Tokens[Max(ParsedLqsTokens(Tokens))])

\* C7 (as claimed): server_time is the first token that contains ':' and is at
\* most 8 long, and is unset exactly when there is no such token.
C7_FirstColonTokenWins ==
    ParserReturned =>
        server_info.val.server_time =
            FirstOf(Tokens, {i \in 1..Len(Tokens) : TimeLike(Tokens[i])})

\* C7 (amended): server_time is the first token that does not start with lqs,
\* contains ':' and is at most 8 bytes long; it is unset exactly when there is no
\* such token, and later such tokens never replace it ("lqs3,12:34,foo,08:00"
\* gives players_in_queue = 3 and server_time = "12:34").
C7_FirstTimeTokenWins ==
    ParserReturned =>
        /\ server_info.val.server_time =
            FirstOf(Tokens, {i \in 1..Len(Tokens) :
                                ~StartsWith(Tokens[i], LQS) /\ TimeLike(Tokens[i])})
        /\ reply.val.keywords = Some(ExampleKeywords) =>
            /\ server_info.val.players_in_queue = Some(U32Of(3))
            /\ server_info.val.server_time = Some(T_1234)

\* C7 witness: the example, with two time-like tokens, has been parsed and returned.
C7_ExampleParsed ==
    /\ fetch_pc = "returned"
    /\ IsOk(reply) /\ IsOk(fetch_ret)
    /\ reply.val.keywords = Some(ExampleKeywords)
    /\ fetch_ret.val.server_time = Some(T_1234)
    /\ fetch_ret.val.players_in_queue = Some(U32Of(3))

\* C8: a response without keywords makes retrieve_server_info return the
\* KeywordsMissing error, never a ServerInfo; a failed query makes it return the
\* A2S error, and the parser is then never called.
C8_KeywordsMissingSurfaced ==
    /\ (fetch_pc = "returned" /\ IsOk(reply) /\ reply.val.keywords = None) =>
        fetch_ret = Err(ExtractServerInfoKeywordsMissing)
    /\ (fetch_pc = "returned" /\ IsOk(fetch_ret)) =>
        IsOk(reply) /\ reply.val.keywords # None
    /\ ~IsOk(reply) =>
        /\ server_info = NotCalled
        /\ fetch_pc = "returned" => fetch_ret = Err(A2SError)
    /\ fetch_pc = "returned" => fetch_ret = retrieve_server_info(reply)

\* C8 witness: the call has returned KeywordsMissing for a response that the
\* query delivered without keywords, the parser having been called.
C8_ReturnedKeywordsMissing ==
    /\ fetch_pc = "returned"
    /\ IsOk(reply) /\ reply.val.keywords = None
    /\ server_info = None
    /\ fetch_ret = Err(ExtractServerInfoKeywordsMissing)

\* C11: with no identifier stored, a tick whose send_message fails makes no
\* query and no edit and sleeps once, and the next iteration of that loop
\* attempts the creation again (it does not go on to the unwrap without a send
\* of its own); a tick whose send succeeds goes on, in the same iteration, to
\* the query and the edit of the message it created.
C11_FailedSendRetriesCreation ==
    \A t \in Tasks :
        /\ pc[t] = "sleep_retry" =>
            /\ tick[t] = <<[op |-> "send", ok |-> FALSE]>>
            /\ t \in retrying
        /\ t \in retrying => pc[t] \in {"sleep_retry", "top", "check"}
        /\ (tick[t] # <<>> /\ tick[t][1].op = "send" /\ tick[t][1].ok) =>
            /\ pc[t] \in {"unwrap", "fetch", "edit", "sleep"}
            /\ pc[t] \in {"edit", "sleep"} => tick[t][2].op = "query"
            /\ pc[t] = "sleep" =>
                /\ tick[t][3].op = "edit"
                /\ tick[t][3].id = message_id.val
                /\ posted = {message_id.val}

\* A token without its first three characters (the leading "lqs" of an lqs token).
StripPrefix(v) == SubSeq(v, Len(LQS) + 1, Len(v))

\* C12 (as claimed): the value an lqs token assigns to players_in_queue is the
\* parse of the token with only its leading "lqs" removed, so that after the
\* parse players_in_queue is that of the last lqs token, set exactly when the
\* remainder of that token is a non-negative integer ("lqs1lqs2" leaves it unset).
C12_OnlyLeadingPrefixStripped ==
    (ParserReturned /\ LqsTokens(Tokens) # {}) =>
        server_info.val.players_in_queue =
            ParseU32(StripPrefix(Tokens[Max(LqsTokens(Tokens))]))

\* C13: whenever the query answered with keywords, the fetch returns Ok, also
\* when players > max_players; the record returned has the player count and
\* max player count of the response, whatever the keyword string holds, and
\* the server_time and players_in_queue the keyword parser produced.
C13_CountsFromResponse ==
    fetch_pc = "returned" =>
        /\ (IsOk(reply) /\ IsSome(reply.val.keywords)) => IsOk(fetch_ret)
        /\ IsOk(fetch_ret) =>
            /\ IsOk(reply) /\ IsSome(server_info)
            /\ fetch_ret.val.players = reply.val.players
            /\ fetch_ret.val.max_players = reply.val.max_players
            /\ fetch_ret.val.server_time = server_info.val.server_time
            /\ fetch_ret.val.players_in_queue = server_info.val.players_in_queue

\* C13 witness: a response with more players than max_players was returned with
\* its counts and the time and queue parsed from "lqs3,12:34,foo,08:00".
C13_OverfullReturned ==
    /\ fetch_pc = "returned" /\ IsOk(reply)
    /\ reply.val.keywords = Some(ExampleKeywords)
    /\ reply.val.players = 61 /\ reply.val.max_players = 60
    /\ fetch_ret = Ok(ServerInfo(Some(T_1234), Some(U32(0, 3)), 61, 60))

\* C14: a token that starts with "lqs" is handled by the queue rule alone: the
\* server_time returned never starts with "lqs", it is the first time-like token
\* among the others, and it is unset when every time-like token is an lqs token
\* (such as "lqs:1"), whether or not the lqs tokens parse.
C14_LqsNeverServerTime ==
    ParserReturned =>
        /\ IsSome(server_info.val.server_time) =>
            ~StartsWith(server_info.val.server_time.val, LQS)
        /\ server_info.val.server_time =
            FirstOf(Tokens, {i \in 1..Len(Tokens) \ LqsTokens(Tokens) : TimeLike(Tokens[i])})

\* C14 witness: "lqs:1,12:34" was parsed; the lqs token with a colon did not
\* parse as a number and was passed over for the time, which is "12:34".
C14_ColonLqsPassedOver ==
    /\ ParserReturned
    /\ Tokens = <<T_lqsColon1, T_1234>>
    /\ TimeLike(T_lqsColon1)
    /\ server_info.val.players_in_queue = None
    /\ server_info.val.server_time = Some(T_1234)

\* The lqs tokens whose remainder after the leading prefix is not a number.
UnparsableLqsTokens(ts) == {i \in LqsTokens(ts) : ParseU32(StripPrefix(ts[i])) = None}

\* C15 (as claimed): an lqs token whose remainder is not a non-negative integer
\* never aborts the parse: a record is returned for every keyword string,
\* players_in_queue is unset when the only lqs token is such a token, and the
\* tokens after it are still processed by both rules (a later time-like token
\* sets server_time, a later lqs token that parses sets players_in_queue).
C15_UnparsableLqsSwallowed ==
    (fetch_pc \in {"fill", "returned"} /\ IsOk(reply) /\ IsSome(reply.val.keywords)) =>
        /\ IsSome(server_info)
        /\ \A i \in UnparsableLqsTokens(Tokens) :
            /\ LqsTokens(Tokens) = {i} => server_info.val.players_in_queue = None
            /\ \A j \in (i + 1)..Len(Tokens) :
                /\ (j = Max(LqsTokens(Tokens)) /\ j \notin UnparsableLqsTokens(Tokens)) =>
                    server_info.val.players_in_queue = ParseU32(StripPrefix(Tokens[j]))
                /\ (j \notin LqsTokens(Tokens) /\ TimeLike(Tokens[j])
                        /\ \A k \in 1..(j - 1) :
                            k \in LqsTokens(Tokens) \/ ~TimeLike(Tokens[k])) =>
                    server_info.val.server_time = Some(Tokens[j])

\* The tick loops that are running.
Running == {t \in Tasks : InLoop(t) /\ pc[t] # "panicked"}

\* C16 (as claimed): however many ready events are delivered, at most one tick
\* loop runs at any time.
C16_SingleLoop == Cardinality(Running) <= 1

\* The length of a string counted in characters.
CharLen(s) == Len(s)

\* C17 (as claimed): a token that does not start with "lqs" and contains a colon
\* is eligible as server_time exactly when it has at most 8 characters, multi-
\* byte characters counting once each; server_time is the first eligible token.
C17_LengthInCharacters ==
    ParserReturned =>
        server_info.val.server_time =
            FirstOf(Tokens, {i \in 1..Len(Tokens) \ LqsTokens(Tokens) :
                                Contains(Tokens[i], Colon) /\ CharLen(Tokens[i]) <= MaxTimeLen})

\* C18: once the stored identifier is set, no step of any loop or ready handler
\* clears it or replaces it by another value, whatever the outcomes of the
\* sends, queries and edits: its only change is from unset to set.
C18_IdNeverChanges == [][message_id # None => message_id' = message_id]_vars

\* C18 witness: the message was created by a loop, both loops have since gone
\* through a tick with the identifier set, and an edit of it has failed.
C18_SetThroughFailures ==
    /\ cfg = None /\ message_id = Some(101)
    /\ pc[1] = "sleep" /\ pc[2] = "sleep"
    /\ failed_edit # None
    /\ sends = <<FALSE, TRUE>>

\* The places of an iteration between the acquisition and the release of the lock.
Critical == {"check", "send", "unwrap"}

\* No loop holds the lock outside the check, the send and the unwrap: not
\* while it sleeps, waits for the lock, queries or edits, and not once it ended.
LockHeldOnlyInCritical ==
    /\ lock \in {0} \cup Tasks
    /\ \A t \in Tasks : lock = t => pc[t] \in Critical
    /\ \A t \in Tasks :
        pc[t] \in {"sleep", "sleep_retry", "fetch", "edit", "top", "panicked"} => lock # t

\* C19: the write lock is released on every path of an iteration before the
\* sleep and before the query and the edit, and is held only from the check to
\* the end of send_message; hence the lock is free again and again, and a task
\* waiting for it (a ready handler at its store, a loop at the top of its
\* iteration) eventually acquires it.
C19_LockReleasedOnEveryPath ==
    /\ []LockHeldOnlyInCritical
    /\ []<>(lock = 0)
    /\ \A t \in Tasks : []<>(pc[t] \notin {"store", "top"})

\* C19 witness: loop 1 sleeps after its failed send while loop 2, which waited
\* for the lock, holds it and sends.
C19_WaiterAcquired ==
    /\ pc[1] = "sleep_retry" /\ lock = 2 /\ pc[2] = "send"
    /\ sends = <<FALSE>>

\* C20: the unwrap after the ensure-message block never fails: whenever a loop
\* is at it the identifier is set, no loop ever panics, the query and the edit
\* run only with the identifier read at the unwrap, which is the stored one,
\* and every edit of the iteration carries that identifier.
C20_UnwrapNeverFails ==
    \A t \in Tasks :
        /\ pc[t] # "panicked"
        /\ pc[t] = "unwrap" => message_id # None
        /\ pc[t] \in {"fetch", "edit", "sleep"} =>
            /\ msg_id[t] # None
            /\ msg_id[t] = message_id
        /\ \A i \in 1..Len(tick[t]) :
            tick[t][i].op \in {"query", "edit"} => msg_id[t] # None
        /\ \A i \in 1..Len(tick[t]) :
            tick[t][i].op = "edit" => tick[t][i].id = msg_id[t].val

\* C20 witness: one loop created the message and read its identifier at the
\* unwrap; the other, whose own send had failed, is at the unwrap in its turn.
C20_BothReachUnwrap ==
    \E t, u \in Tasks :
        /\ t # u
        /\ pc[t] = "fetch" /\ tick[t] = <<[op |-> "send", ok |-> TRUE]>>
        /\ msg_id[t] = Some(101)
        /\ pc[u] = "unwrap" /\ u \in retrying

====
